---------------------------- MODULE Spec2Model ----------------------------
(***************************************************************************)
(* hopr-core-polkadot: the payment-channel connector.                      *)
(*                                                                         *)
(* The model follows channel/index.ts (class Channel) and index.ts (class  *)
(* HoprPolkadot), and the earlier connector object of src/index.ts         *)
(* (HoprPolkadotClass.channel).  The ledger (api.query / api.tx), the      *)
(* local store (levelup) and the protocol drivers ChannelOpener and        *)
(* ChannelSettler are collaborators: each of their calls is a step whose   *)
(* outcome (resolve, reject, stay pending) is chosen nondeterministically. *)
(***************************************************************************)
EXTENDS Integers, Sequences, FiniteSets, TLC

\* ------------------------------------------------------------ bounds ----

\* Number of counterparties the node may hold a channel with.
NumParties == 2

\* Number of distinct signatures handed to testAndSetNonce.
NumSigs == 2

\* Number of testAndSetNonce calls that may be in flight together.
NumCallers == 2

\* ------------------------------------------------------------ values ----

\* On-chain account of the local node; counterparties lie on both sides of
\* it, so the node is party A of some channels and party B of others.
Self == 2

\* The keys dbKeys.Channel(0x00..00) and dbKeys.Channel(0xff..ff) between
\* which getAll scans.  Accounts are public keys, and none is all zeros or
\* all ones.
KeyMin == 0
KeyMax == NumParties + 2

Counterparties == (KeyMin + 1 .. KeyMax - 1) \ {Self}

None == "none"

\* What the earlier connector stores under dbKeys.Channel: the empty string.
EmptyRecord == [empty |-> TRUE]

\* ChannelBalance values a caller passes to create; the signed channel that
\* sign(channelBalance) returns carries the same balances.
ChannelBalances ==
    { [balance_a |-> 60, balance |-> 100],
      [balance_a |-> 100, balance |-> 60] }

\* Amounts a caller passes to the earlier channel.open.
Amounts == {40, 60}

\* An optional value: <<>> when absent, <<v>> when present.
Opt(S) == {<<>>} \cup {<<v>> : v \in S}

Versions == {"channel/index.ts", "src/index.ts"}

\* Balance is an unsigned integer of fixed width (u128); the width is
\* scaled down to eight bits.
BalanceModulus == 256

\* How a promise ends up once every callback that can run has run.
Resolved(v) == [state |-> "resolved", value |-> v, fault |-> None]
Rejected(f) == [state |-> "rejected", value |-> 0, fault |-> f]
Pending == [state |-> "pending", value |-> 0, fault |-> None]

\* api.createType('Balance', bn): a negative BN is outside the type; the
\* type library keeps it as it is, wraps it to the width, or throws.
Balance_create(n) ==
    IF n >= 0 THEN {Resolved(n)}
    ELSE {Resolved(n), Resolved(n % BalanceModulus), Pending}

\* A promise is None before the call that makes it, then "pending", then
\* "resolved" or "rejected".  A channel on the ledger is "Uninitialized",
\* "Funded", "Active" or "PendingSettlement" (ChannelEnum.type).

VARIABLES
    version,    \* which of the two connector sources runs
    ledger,     \* api.query.hopr.channels: counterparty -> ChannelEnum.type
    db,         \* local store, Channel namespace: stored counterparty -> record
    call,       \* the Channel.create / channel.open call in progress
    nonceDb,    \* local store, Nonce namespace: set of keys present
    tsn,        \* testAndSetNonce calls: caller -> position and outcome
    settle,     \* initiateSettlement per counterparty: settler promises
    scan,       \* the getAll / closeChannels call in progress
    getter,     \* a balance getter of a Channel object: call and outcome
    signedTicket, \* a SignedTicket object and what was read from it
    challengeDb, \* local store, Challenge namespace: the entries present
    gpc,        \* the getPreviousChallenges call in progress
    pendingWindow, \* api.query.hopr.pendingWindow on the ledger
    cached,     \* _settlementWindow of the Channel object per counterparty
    connector,  \* HoprPolkadot: _nonce and the reads of the nonce getter
    onChainValues \* the OnChainSecret entry, the ledger's state, hopr.init

vars == <<version, ledger, db, call, nonceDb, tsn, settle, scan,
          getter, signedTicket, challengeDb, gpc, pendingWindow, cached,
          connector, onChainValues>>

openVars == <<version, ledger, db, call>>
nonceVars == <<nonceDb, tsn>>
settleVars == <<settle, scan>>
balanceVars == <<getter>>
ticketVars == <<signedTicket>>
challengeVars == <<challengeDb, gpc>>
windowVars == <<pendingWindow, cached>>
connectorVars == <<connector, onChainValues>>
otherVars ==
    <<balanceVars, ticketVars, challengeVars, windowVars, connectorVars>>

\* ------------------------------------------------------------- utils ----

\* utils.isPartyA(self, counterparty): the smaller account is party A.
isPartyA(self, counterparty) == self < counterparty

\* -------------------------------------------------- Channel.isOpen ------

\* Outcomes of isOpen: a boolean, or one of the faults it throws.
IsOpenFaults == {"offChainNotOnChain", "onChainNotOffChain", "dbError"}

\* queryOk: the ledger query resolved; when it rejects the handler maps the
\* rejection to false.  dbGet: "found", "notFound" or "error".
onChain(type, queryOk) == queryOk /\ type # "Uninitialized"

offChain(dbGet) == dbGet = "found"

isOpen(type, queryOk, dbGet) ==
    IF dbGet = "error" THEN "dbError"
    ELSE IF onChain(type, queryOk) # offChain(dbGet)
         THEN IF ~onChain(type, queryOk) /\ offChain(dbGet)
              THEN "offChainNotOnChain"
              ELSE "onChainNotOffChain"
         ELSE IF onChain(type, queryOk) /\ offChain(dbGet) THEN "true" ELSE "false"

\* db.get(dbKeys.Channel(c)) on the current store, or an I/O error.
DbGet(c, ioError) ==
    IF ioError THEN "error" ELSE IF c \in DOMAIN db THEN "found" ELSE "notFound"

\* db.put(dbKeys.Channel(c), record)
DbPut(c, record) ==
    [k \in DOMAIN db \cup {c} |-> IF k = c THEN record ELSE db[k]]

\* ------------------------------------------------ the ledger ------------

\* What the ledger does at the counterparty's request: the counterparty
\* starts a settlement of an active channel; a pending settlement is closed
\* and the channel removed.
LedgerStep(c) ==
    /\ ledger[c] \in {"Active", "PendingSettlement"}
    /\ ledger' = [ledger EXCEPT ![c] =
                    IF ledger[c] = "Active" THEN "PendingSettlement"
                    ELSE "Uninitialized"]
    /\ UNCHANGED <<version, db, call, nonceVars, settleVars, otherVars>>

\* ------------------------------------ Channel.create / channel.open -----

IdleCall ==
    [ pc |-> "idle", api |-> None, c |-> Self,
      channelBalance |-> <<>>, sign |-> FALSE,
      signedChannel |-> <<>>, amount |-> <<>>,
      fundingTx |-> None, onceOpen |-> None, setActive |-> None,
      retry |-> FALSE, isOpen |-> None, increaseFunds |-> 0, signCalls |-> 0, puts |-> 0 ]

\* A call may start when the previous one has returned or thrown and the
\* opener promises it started have settled.
CallQuiescent ==
    /\ call.pc \in {"idle", "done", "fault"}
    /\ call.onceOpen # "pending"
    /\ call.setActive # "pending"

\* The previous call threw because onceOpen or setActive rejected.
OpeningFailed ==
    /\ call.pc = "fault"
    /\ call.api = "create"
    /\ call.onceOpen = "rejected" \/ call.setActive = "rejected"

\* create(hoprPolkadot, offChainCounterparty, getOnChainPublicKey,
\*        channelBalance?, sign?): the counterparty's account and the
\* channel id are resolved first; either may reject.
create(c, channelBalance, sign, resolved) ==
    /\ version = "channel/index.ts"
    /\ CallQuiescent
    /\ call' = [IdleCall EXCEPT
                  !.pc = IF resolved THEN "isOpen" ELSE "fault",
                  !.api = "create", !.c = c,
                  !.retry = OpeningFailed /\ call.c = c,
                  !.channelBalance = channelBalance, !.sign = sign]
    /\ UNCHANGED <<version, ledger, db, nonceVars, settleVars, otherVars>>

\* AfterIsOpen with the argument test first: an open channel is opened anew
\* whenever the caller passes channelBalance and sign.
AfterIsOpen_argsFirst(result, channelBalance, sign) ==
    IF result \in {"true", "false"} /\ sign /\ channelBalance # <<>>
    THEN "opener"
    ELSE IF result = "true" THEN "load" ELSE "fault"

\* AfterIsOpen with a fault of isOpen taken for false: a channel on which
\* ledger and store disagree is opened anew when the caller passes
\* channelBalance and sign.
AfterIsOpen_lenient(result, channelBalance, sign) ==
    IF result = "true" THEN "load"
    ELSE IF sign /\ channelBalance # <<>> THEN "opener" ELSE "fault"

\* if (await this.isOpen(...)) ... else if (sign != null &&
\* channelBalance != null) ... else throw Error('Invalid input parameters.')
AfterIsOpen(result, channelBalance, sign) ==
    IF result = "true" THEN "load"
    ELSE IF result = "false"
         THEN IF sign /\ channelBalance # <<>> THEN "opener" ELSE "fault"
         ELSE "fault"

create_isOpen(queryOk, ioError) ==
    /\ call.pc = "isOpen"
    /\ LET result == isOpen(ledger[call.c], queryOk, DbGet(call.c, ioError))
       IN call' = [call EXCEPT
                     !.isOpen = result,
                     !.pc = AfterIsOpen(result, call.channelBalance, call.sign)]
    /\ UNCHANGED <<version, ledger, db, nonceVars, settleVars, otherVars>>

\* signedChannel = new SignedChannel(hoprPolkadot, await db.get(...))
create_load(ioError) ==
    /\ call.pc = "load"
    /\ call' = IF DbGet(call.c, ioError) = "found"
               THEN [call EXCEPT !.pc = "done",
                                 !.signedChannel = <<db[call.c]>>]
               ELSE [call EXCEPT !.pc = "fault"]
    /\ UNCHANGED <<version, ledger, db, nonceVars, settleVars, otherVars>>

\* channel.open(amount, signature, props) of the earlier connector: no
\* isOpen check, the caller gives the amount to escrow.
open(c, amount) ==
    /\ version = "src/index.ts"
    /\ CallQuiescent
    /\ call' = [IdleCall EXCEPT !.pc = "opener", !.api = "open", !.c = c,
                                !.amount = <<amount>>]
    /\ UNCHANGED <<version, ledger, db, nonceVars, settleVars, otherVars>>

\* await ChannelOpener.create(...)
ChannelOpener_create(ok) ==
    /\ call.pc = "opener"
    /\ call' = [call EXCEPT !.pc = IF ok THEN "increaseFunds" ELSE "fault"]
    /\ UNCHANGED <<version, ledger, db, nonceVars, settleVars, otherVars>>

\* The amount create escrows: balance_a for party A, else
\* createType('Balance', balance.sub(balance_a.toBn())).  The outcomes are
\* the amount, or Pending when createType throws and create with it.
FundingAmount(c, channelBalance) ==
    IF isPartyA(Self, c)
    THEN {Resolved(channelBalance.balance_a)}
    ELSE Balance_create(channelBalance.balance - channelBalance.balance_a)

\* await channelOpener.increaseFunds(amount).  In channel.open the array
\* [onceOpen(), setActive(await signature)] is built next, so onceOpen() is
\* already called when the signature is awaited.
increaseFunds(ok) ==
    /\ call.pc = "increaseFunds"
    /\ \E amount \in IF call.api = "create"
                      THEN FundingAmount(call.c, call.channelBalance[1])
                      ELSE {Resolved(call.amount[1])} :
          call' =
            IF amount.state = "pending"
            THEN [call EXCEPT !.pc = "fault"]
            ELSE [call EXCEPT
                    !.increaseFunds = 1,
                    !.amount = <<amount.value>>,
                    !.fundingTx = IF ok THEN "submitted" ELSE None,
                    !.onceOpen = IF ok /\ call.api = "open" THEN "pending"
                                 ELSE None,
                    !.pc = IF ok THEN "sign" ELSE "fault"]
    /\ UNCHANGED <<version, ledger, db, nonceVars, settleVars, otherVars>>

\* The ledger finalizes the funding transaction that increaseFunds
\* submitted: an uninitialized channel becomes funded.
FundingFinalized ==
    /\ call.fundingTx = "submitted"
    /\ call' = [call EXCEPT !.fundingTx = "finalized"]
    /\ ledger' = [ledger EXCEPT ![call.c] =
                    IF @ = "Uninitialized" THEN "Funded" ELSE @]
    /\ UNCHANGED <<version, db, nonceVars, settleVars, otherVars>>

\* signedChannel = await sign(channelBalance) (create), await signature
\* (open); then onceOpen() and setActive(signedChannel) are both started.
sign(ok) ==
    /\ call.pc = "sign"
    /\ call' =
         IF ok
         THEN [call EXCEPT
                 !.signCalls = 1,
                 !.signedChannel = IF call.api = "create"
                                   THEN call.channelBalance
                                   ELSE <<EmptyRecord>>,
                 !.onceOpen = IF call.api = "create" THEN "pending" ELSE @,
                 !.setActive = "pending",
                 !.pc = "awaitAll"]
         ELSE [call EXCEPT !.signCalls = 1, !.pc = "fault"]
    /\ UNCHANGED <<version, ledger, db, nonceVars, settleVars, otherVars>>

\* channelOpener.onceOpen() settles: it resolves on the ledger's event that
\* the channel is funded.
onceOpen(ok) ==
    /\ call.onceOpen = "pending"
    /\ ok => ledger[call.c] # "Uninitialized"
    /\ call' = [call EXCEPT !.onceOpen = IF ok THEN "resolved" ELSE "rejected"]
    /\ UNCHANGED <<version, ledger, db, nonceVars, settleVars, otherVars>>

\* channelOpener.setActive(signedChannel) settles: when it resolves the
\* funded channel is active on the ledger.
setActive(ok) ==
    /\ call.setActive = "pending"
    /\ ok => ledger[call.c] = "Funded"
    /\ call' = [call EXCEPT !.setActive = IF ok THEN "resolved" ELSE "rejected"]
    /\ ledger' = IF ok THEN [ledger EXCEPT ![call.c] = "Active"] ELSE ledger
    /\ UNCHANGED <<version, db, nonceVars, settleVars, otherVars>>

\* AllResolved when only the funding confirmation is awaited.
AllResolved_onceOpen == call.onceOpen = "resolved"

\* AllResolved as Promise.race would have it: one of the two is enough.
AllResolved_race == call.onceOpen = "resolved" \/ call.setActive = "resolved"

\* await Promise.all([onceOpen, setActive]) resolves once both have.
AllResolved == call.onceOpen = "resolved" /\ call.setActive = "resolved"

\* Promise.all rejects as soon as one of the two rejects.
AnyRejected == call.onceOpen = "rejected" \/ call.setActive = "rejected"

create_reject ==
    /\ call.pc = "awaitAll"
    /\ AnyRejected
    /\ call' = [call EXCEPT !.pc = "fault"]
    /\ UNCHANGED <<version, ledger, db, nonceVars, settleVars, otherVars>>

\* await db.put(dbKeys.Channel(counterparty), signedChannel); return the
\* channel.
create_put(ok) ==
    /\ call.pc = "awaitAll"
    /\ AllResolved
    /\ call' = [call EXCEPT !.puts = 1, !.pc = IF ok THEN "done" ELSE "fault"]
    /\ db' = IF ok THEN DbPut(call.c, call.signedChannel[1]) ELSE db
    /\ UNCHANGED <<version, ledger, nonceVars, settleVars, otherVars>>

\* --------------------------------------- specification: opening ---------

\* No testAndSetNonce call, no settlement and no scan is under way.
NoNonces == nonceDb = {} /\ tsn = <<>>
NoSettlement == settle = <<>> /\ scan = <<>>

\* No getter is called, no SignedTicket is built, no challenge is on record.
NoBalances == getter = <<>>
NoTickets == signedTicket = <<>>
NoChallenges == challengeDb = <<>> /\ gpc = <<>>
NoWindow == pendingWindow = 0 /\ cached = <<>>
NoConnector == connector = <<>> /\ onChainValues = <<>>
NoOther == NoBalances /\ NoTickets /\ NoChallenges /\ NoWindow

\* The ledger and the store before the node has opened any channel.
InitOpen ==
    /\ version \in Versions
    /\ ledger = [c \in Counterparties |-> "Uninitialized"]
    /\ db = <<>>
    /\ call = IdleCall
    /\ NoNonces
    /\ NoSettlement
    /\ NoOther
    /\ NoConnector

NextOpen ==
    \/ \E c \in Counterparties, cb \in Opt(ChannelBalances),
          sg \in BOOLEAN, resolved \in BOOLEAN :
            create(c, cb, sg, resolved)
    \/ \E queryOk \in BOOLEAN, ioError \in BOOLEAN :
            create_isOpen(queryOk, ioError)
    \/ \E ioError \in BOOLEAN : create_load(ioError)
    \/ \E c \in Counterparties, amount \in Amounts : open(c, amount)
    \/ \E ok \in BOOLEAN : ChannelOpener_create(ok)
    \/ \E ok \in BOOLEAN : increaseFunds(ok)
    \/ FundingFinalized
    \/ \E ok \in BOOLEAN : sign(ok)
    \/ \E ok \in BOOLEAN : onceOpen(ok)
    \/ \E ok \in BOOLEAN : setActive(ok)
    \/ create_reject
    \/ \E ok \in BOOLEAN : create_put(ok)
    \/ \E c \in Counterparties : LedgerStep(c)

SpecOpen == InitOpen /\ [][NextOpen]_vars

\* -------------------------------------------- claims: isOpen, create ----

\* The ledger holds the channel; the local store holds a record of it.
ExistsOnLedger(c) == ledger[c] # "Uninitialized"
ExistsInStore(c) == c \in DOMAIN db

\* The step in which create's call of isOpen returns or throws.
IsOpenReturns == call.pc = "isOpen" /\ call'.pc # "isOpen"

\* C1: isOpen returns true only if the ledger holds the channel in a state
\* other than Uninitialized and the local store holds a record; whenever the
\* two disagree about the channel's existence isOpen throws; it returns
\* false only when both say the channel does not exist.
C1_Claim ==
    [][IsOpenReturns =>
         /\ call'.isOpen = "true" =>
              ExistsOnLedger(call.c) /\ ExistsInStore(call.c)
         /\ ExistsOnLedger(call.c) # ExistsInStore(call.c) =>
              call'.isOpen \in IsOpenFaults
         /\ call'.isOpen = "false" =>
              ~ExistsOnLedger(call.c) /\ ~ExistsInStore(call.c)]_vars

\* The call opened a channel: it took the opening path and returned.
Opened ==
    /\ call.pc = "done"
    /\ call.api = "open" \/ (call.api = "create" /\ call.isOpen = "false")

\* C5: create and channel.open write the channel record and return success
\* only after both onceOpen and setActive have resolved.
C5_Theorem ==
    /\ call.puts > 0 =>
         call.onceOpen = "resolved" /\ call.setActive = "resolved"
    /\ Opened =>
         /\ call.onceOpen = "resolved" /\ call.setActive = "resolved"
         /\ call.puts = 1
         /\ ExistsInStore(call.c) /\ db[call.c] = call.signedChannel[1]

\* create has opened a channel and stored its record.
C5_Witness ==
    /\ Opened
    /\ call.api = "create"
    /\ ExistsInStore(call.c)

\* C6: when onceOpen or setActive fails, create throws and writes no record
\* for the counterparty, and a later create for the same counterparty takes
\* the opening path again (its isOpen returns false).
C6_Claim ==
    /\ OpeningFailed => call.puts = 0 /\ ~ExistsInStore(call.c)
    /\ ( /\ call.retry
         /\ call.sign /\ call.channelBalance # <<>>
         /\ call.isOpen \notin {None, "dbError"} )
       => call.isOpen = "false"

\* create runs on a channel that isOpen found open.
OnOpenChannel == call.api = "create" /\ call.isOpen = "true"

\* C7: on a channel that is already open, create returns a channel built
\* from the stored record and calls no increaseFunds, sign, onceOpen,
\* setActive or db.put; its steps leave the ledger and the store as they are.
C7_Theorem ==
    /\ [](OnOpenChannel =>
            /\ call.increaseFunds = 0 /\ call.signCalls = 0 /\ call.puts = 0
            /\ call.onceOpen = None /\ call.setActive = None
            /\ call.pc \in {"load", "done", "fault"}
            /\ call.pc = "done" =>
                 /\ ExistsInStore(call.c)
                 /\ call.signedChannel = <<db[call.c]>>)
    /\ [][(call' # call /\ call'.api = "create" /\ call'.isOpen = "true")
            => (ledger' = ledger /\ db' = db)]_vars

\* create returned an open channel's stored record although the caller
\* passed other balances and a sign function.
C7_Witness ==
    /\ OnOpenChannel
    /\ call.pc = "done"
    /\ call.sign /\ call.channelBalance # <<>>
    /\ call.signedChannel # call.channelBalance

\* ------------------------------------------- Channel.testAndSetNonce ----

Signatures == 1..NumSigs
Callers == 1..NumCallers

\* blake2b(signature, NONCE_HASH_KEY, 32): a keyed hash, told apart from the
\* signature it digests; distinct signatures give distinct digests.
NONCE_HASH_KEY == "Nonce"
blake2b(signature, key) == <<key, signature>>

\* dbKeys.Nonce(channelId, nonce); the channel id stands for the channel
\* with counterparty c.
NonceKey(c, signature) == <<c, blake2b(signature, NONCE_HASH_KEY)>>

NonceKeys == {NonceKey(c, sg) : c \in Counterparties, sg \in Signatures}

NoNonceCall ==
    [ pc |-> "idle", c |-> Self, signature |-> 0, result |-> None,
      later |-> FALSE, overlaps |-> {} ]

\* Another caller's call with the same signature on the same channel.
SameNonce(j, c, signature) == tsn[j].c = c /\ tsn[j].signature = signature

\* channel.testAndSetNonce(signature) is called.  later: a call with this
\* signature on this channel has already succeeded; overlaps: the callers
\* whose call with this signature on this channel is in flight.
testAndSetNonce(i, c, signature) ==
    /\ tsn[i].pc = "idle"
    /\ tsn' = [tsn EXCEPT ![i] =
                 [ pc |-> "waitReady", c |-> c, signature |-> signature,
                   result |-> None,
                   later |-> \E j \in Callers :
                                /\ SameNonce(j, c, signature)
                                /\ tsn[j].result = "ok",
                   overlaps |-> { j \in Callers :
                                    /\ SameNonce(j, c, signature)
                                    /\ tsn[j].pc \in {"waitReady", "get"} } ]]
    /\ UNCHANGED <<openVars, nonceDb, settleVars, otherVars>>

\* await waitReady(); the digest and the key are computed, await
\* this.channelId may reject; db.get(key) is issued.
tsn_waitReady(i, idOk) ==
    /\ tsn[i].pc = "waitReady"
    /\ tsn' = [tsn EXCEPT ![i].pc = IF idOk THEN "get" ELSE "done",
                          ![i].result = IF idOk THEN None ELSE "idError"]
    /\ UNCHANGED <<openVars, nonceDb, settleVars, otherVars>>

\* What the call settles with once db.get(key) has: found throws 'Nonces
\* must not be used twice.', notFound resolves, another error is rethrown.
NonceResult(key, ioError) ==
    IF ioError THEN "dbError"
    ELSE IF key \in nonceDb THEN "nonceReplay" ELSE "ok"

\* The store after the call: the handler ends with the db.get.
NonceDbAfter(key, result) == nonceDb

tsn_get(i, ioError) ==
    /\ tsn[i].pc = "get"
    /\ LET key == NonceKey(tsn[i].c, tsn[i].signature)
           result == NonceResult(key, ioError)
       IN /\ tsn' = [tsn EXCEPT ![i].pc = "done", ![i].result = result]
          /\ nonceDb' = NonceDbAfter(key, result)
    /\ UNCHANGED <<openVars, settleVars, otherVars>>

\* ----------------------------------------- specification: nonces ---------

\* The store may hold nonce entries from earlier runs.
InitNonce ==
    /\ version = "channel/index.ts"
    /\ ledger = [c \in Counterparties |-> "Active"]
    /\ db = [c \in Counterparties |-> [balance_a |-> 60, balance |-> 100]]
    /\ call = IdleCall
    /\ nonceDb \in SUBSET NonceKeys
    /\ tsn = [i \in Callers |-> NoNonceCall]
    /\ NoSettlement
    /\ NoOther
    /\ NoConnector

NextNonce ==
    \/ \E i \in Callers, c \in Counterparties, sg \in Signatures :
            testAndSetNonce(i, c, sg)
    \/ \E i \in Callers, idOk \in BOOLEAN : tsn_waitReady(i, idOk)
    \/ \E i \in Callers, ioError \in BOOLEAN : tsn_get(i, ioError)

SpecNonce == InitNonce /\ [][NextNonce]_vars

\* ------------------------------------------------- claims: nonces -------

\* C2: once testAndSetNonce(s) has succeeded on a channel, every later
\* testAndSetNonce(s) on that channel faults; the first call for a
\* signature whose nonce is not in the store succeeds.
C2_Claim ==
    \A i \in Callers :
        tsn[i].pc = "done" =>
            /\ tsn[i].later => tsn[i].result # "ok"
            /\ ( /\ ~tsn[i].later
                 /\ NonceKey(tsn[i].c, tsn[i].signature) \notin nonceDb
                 /\ tsn[i].result \notin {"idError", "dbError"} )
               => tsn[i].result = "ok"

\* C3: two concurrent testAndSetNonce calls with the same signature on the
\* same channel never both succeed.
C3_Claim ==
    \A i, j \in Callers :
        ( /\ j \in tsn[i].overlaps
          /\ SameNonce(j, tsn[i].c, tsn[i].signature) )
        => ~(tsn[i].result = "ok" /\ tsn[j].result = "ok")

\* ------------------------------------------ Channel.initiateSettlement ---

\* ChannelSettler is a collaborator: its calls are followed as promises
\* that settle one way or the other.  What its transactions do to the
\* ledger is not followed; initiateSettlement and closeChannels read
\* neither the ledger nor a record the settler may have touched.

NoSettler ==
    [ pc |-> "idle", settlementWindow |-> <<>>,
      init |-> None, onceClosed |-> None, withdraw |-> None,
      withdrawCalls |-> 0 ]

\* The chained promise channelSettler.onceClosed().then(() => withdraw()).
ThenChain(st) ==
    IF st.onceClosed = "rejected" THEN "rejected"
    ELSE IF st.onceClosed = "resolved" /\ st.withdraw \in {"resolved", "rejected"}
         THEN st.withdraw
         ELSE "pending"

\* Promise.all of two promises.
PromiseAll(p, q) ==
    IF p = "rejected" \/ q = "rejected" THEN "rejected"
    ELSE IF p = "resolved" /\ q = "resolved" THEN "resolved"
         ELSE "pending"

\* The promise initiateSettlement returned: it is rejected when
\* ChannelSettler.create throws, and settles as
\* Promise.all([onceClosed().then(...), init()]) does.
initiateSettlement_result(st) ==
    CASE st.pc = "idle" -> None
      [] st.pc = "create" -> "pending"
      [] st.pc = "thrown" -> "rejected"
      [] st.pc = "running" -> PromiseAll(ThenChain(st), st.init)

\* No promise of the channel's settlement is pending.
Quiescent(c) ==
    \/ settle[c].pc \in {"idle", "thrown"}
    \/ /\ settle[c].pc = "running"
       /\ settle[c].init # "pending"
       /\ ThenChain(settle[c]) # "pending"

\* Number of values the ledger's pendingWindow takes.
NumWindows == 2
Windows == 1 .. NumWindows

\* get settlementWindow() on a Channel object whose _settlementWindow is
\* cache: the cached value when there is one, else the ledger's.
settlementWindow(cache) == IF cache # <<>> THEN cache[1] ELSE pendingWindow

\* The call of initiateSettlement on a Channel of counterparty c: it awaits
\* the channel id, the settlement window and ChannelSettler.create, to
\* which the window is handed.
Start(c, window) ==
    [NoSettler EXCEPT !.pc = "create", !.settlementWindow = <<window>>]

\* ChannelSettler.create (or one of the two reads before it) settles; on
\* success onceClosed() and init() are both called, in this order.
ChannelSettler_create(c, ok) ==
    /\ settle[c].pc = "create"
    /\ settle' = [settle EXCEPT ![c] =
                    IF ok
                    THEN [@ EXCEPT !.pc = "running", !.onceClosed = "pending",
                                   !.init = "pending"]
                    ELSE [@ EXCEPT !.pc = "thrown"]]
    /\ UNCHANGED <<openVars, nonceVars, scan, otherVars>>

\* channelSettler.init() settles.
init(c, ok) ==
    /\ settle[c].init = "pending"
    /\ settle' = [settle EXCEPT ![c].init = IF ok THEN "resolved" ELSE "rejected"]
    /\ UNCHANGED <<openVars, nonceVars, scan, otherVars>>

\* channelSettler.onceClosed() settles: the window has expired or the
\* counterparty has closed the channel.
onceClosed(c, ok) ==
    /\ settle[c].onceClosed = "pending"
    /\ settle' = [settle EXCEPT ![c].onceClosed =
                    IF ok THEN "resolved" ELSE "rejected"]
    /\ UNCHANGED <<openVars, nonceVars, scan, otherVars>>

\* ThenReady as .finally would have it: the callback runs however
\* onceClosed settles.
ThenReady_finally(c) ==
    /\ settle[c].onceClosed \in {"resolved", "rejected"}
    /\ settle[c].withdraw = None

\* The callback of .then(() => channelSettler.withdraw()) is due.
ThenReady(c) ==
    /\ settle[c].onceClosed = "resolved"
    /\ settle[c].withdraw = None

\* The callback runs: withdraw() is called.
then_withdraw(c) ==
    /\ ThenReady(c)
    /\ settle' = [settle EXCEPT ![c].withdraw = "pending",
                                ![c].withdrawCalls = @ + 1]
    /\ UNCHANGED <<openVars, nonceVars, scan, otherVars>>

\* channelSettler.withdraw() settles.
withdraw(c, ok) ==
    /\ settle[c].withdraw = "pending"
    /\ settle' = [settle EXCEPT ![c].withdraw =
                    IF ok THEN "resolved" ELSE "rejected"]
    /\ UNCHANGED <<openVars, nonceVars, scan, otherVars>>

\* ------------------------------------ Channel.getAll / closeChannels ----

NoScan ==
    [ pc |-> "idle", snapshot |-> {}, remaining |-> <<>>,
      invoked |-> [c \in Counterparties |-> 0],
      visited |-> <<>>, promises |-> <<>>, onEnd |-> 0, result |-> None ]

\* The keys of the Channel namespace a read stream {gt, lt} yields.
KeysBetween(gt, lt) == {k \in DOMAIN db : gt < k /\ k < lt}

\* The keys as a stream opened with reverse: true would emit them.
RECURSIVE Ascending_reverse(_)
Ascending_reverse(S) ==
    IF S = {} THEN <<>>
    ELSE LET greatest == CHOOSE k \in S : \A j \in S : j <= k
         IN <<greatest>> \o Ascending_reverse(S \ {greatest})

\* A set of keys in ascending order, the order in which a read stream
\* emits them.
RECURSIVE Ascending(_)
Ascending(S) ==
    IF S = {} THEN <<>>
    ELSE LET least == CHOOSE k \in S : \A j \in S : k <= j
         IN <<least>> \o Ascending(S \ {least})

\* createReadStream with lt as getPreviousChallenges sets it: the all-zero
\* key for both ends.
ReadStream_ltZero == KeysBetween(KeyMin, KeyMin)

\* db.createReadStream({gt: Channel(0x00..00), lt: Channel(0xff..ff)})
ReadStream == KeysBetween(KeyMin, KeyMax)

\* A direct call of initiateSettlement on the Channel object the caller
\* holds for counterparty c, which create or getAll has built from a stored
\* record; the read of settlementWindow fills the object's cache.
initiateSettlement(c) ==
    /\ c \in DOMAIN db
    /\ scan.pc # "stream"
    /\ Quiescent(c)
    /\ settle' = [settle EXCEPT ![c] = Start(c, settlementWindow(cached[c]))]
    /\ cached' = [cached EXCEPT ![c] = <<settlementWindow(cached[c])>>]
    /\ UNCHANGED <<openVars, nonceVars, scan, balanceVars, ticketVars,
                   challengeVars, pendingWindow, connectorVars>>

\* The caller reads settlementWindow on the Channel object it holds; a
\* failed query leaves the cache as it is.
get_settlementWindow(c, queryOk) ==
    /\ c \in DOMAIN db
    /\ cached' = IF queryOk \/ cached[c] # <<>>
                 THEN [cached EXCEPT ![c] = <<settlementWindow(cached[c])>>]
                 ELSE cached
    /\ cached' # cached
    /\ UNCHANGED <<openVars, nonceVars, settleVars, balanceVars, ticketVars,
                   challengeVars, pendingWindow, connectorVars>>

\* The ledger's pendingWindow is changed.
set_pendingWindow(window) ==
    /\ window # pendingWindow
    /\ pendingWindow' = window
    /\ UNCHANGED <<openVars, nonceVars, settleVars, balanceVars, ticketVars,
                   challengeVars, cached, connectorVars>>

\* closeChannels(hoprPolkadot): getAll with the visitor that calls
\* initiateSettlement and with onEnd = Promise.all(promises).then(...).
closeChannels ==
    /\ scan.pc # "stream"
    /\ \A c \in Counterparties : Quiescent(c)
    /\ scan' = [NoScan EXCEPT !.pc = "stream", !.snapshot = ReadStream,
                              !.remaining = Ascending(ReadStream),
                              !.result = "pending"]
    /\ UNCHANGED <<openVars, nonceVars, settle, otherVars>>

\* What the visitor of closeChannels returns: its body is the statement
\* channel.initiateSettlement() and it returns undefined, so the promise
\* getAll keeps, Promise.resolve(undefined), is resolved.
OnData_promise(c) == "resolved"

\* DataReady when each record is visited only after the settlements started
\* before it have succeeded.
DataReady_serial ==
    /\ scan.pc = "stream"
    /\ scan.remaining # <<>>
    /\ \A d \in Counterparties :
          scan.invoked[d] > 0 =>
             initiateSettlement_result(settle[d]) = "resolved"

\* The stream has a record to emit.
DataReady ==
    /\ scan.pc = "stream"
    /\ scan.remaining # <<>>

\* .on('data', ...): the visitor is applied to a Channel built from the
\* record, whose _settlementWindow is not set, and its result is pushed,
\* wrapped in a promise.
scan_data ==
    /\ DataReady
    /\ LET c == Head(scan.remaining)
       IN /\ settle' = [settle EXCEPT ![c] = Start(c, settlementWindow(<<>>))]
          /\ scan' = [scan EXCEPT
                        !.remaining = Tail(@),
                        !.invoked[c] = @ + 1,
                        !.visited = Append(@, c),
                        !.promises = Append(@, OnData_promise(c))]
    /\ UNCHANGED <<openVars, nonceVars, otherVars>>

\* .on('error', err => reject(err)): the stream is destroyed by its error
\* and emits neither data nor end afterwards.
scan_error ==
    /\ scan.pc = "stream"
    /\ scan' = [scan EXCEPT !.pc = "error", !.result = "rejected"]
    /\ UNCHANGED <<openVars, nonceVars, settle, otherVars>>

\* Promise.all(promises) of closeChannels' onEnd.
RECURSIVE PromiseAllOf(_)
PromiseAllOf(ps) ==
    IF ps = <<>> THEN "resolved"
    ELSE PromiseAll(Head(ps), PromiseAllOf(Tail(ps)))

\* .on('end', () => resolve(onEnd(promises)))
scan_end ==
    /\ scan.pc = "stream"
    /\ scan.remaining = <<>>
    /\ scan' = [scan EXCEPT !.pc = "ended", !.onEnd = @ + 1,
                            !.result = PromiseAllOf(scan.promises)]
    /\ UNCHANGED <<openVars, nonceVars, settle, otherVars>>

\* -------------------------------------- specification: settlement -------

\* The node holds active channels with some of the counterparties; the
\* Channel objects the caller holds have read their settlement window, and
\* the ledger's value stays as it is.
InitSettle ==
    /\ version = "channel/index.ts"
    /\ \E stored \in SUBSET Counterparties :
          /\ db = [c \in stored |-> [balance_a |-> 60, balance |-> 100]]
          /\ ledger = [c \in Counterparties |->
                         IF c \in stored THEN "Active" ELSE "Uninitialized"]
    /\ call = IdleCall
    /\ NoNonces
    /\ settle = [c \in Counterparties |-> NoSettler]
    /\ scan = NoScan
    /\ NoBalances /\ NoTickets /\ NoChallenges
    /\ pendingWindow = 1
    /\ cached = [c \in Counterparties |-> <<pendingWindow>>]
    /\ NoConnector

NextSettle ==
    \/ \E c \in Counterparties : initiateSettlement(c)
    \/ \E c \in Counterparties, ok \in BOOLEAN : ChannelSettler_create(c, ok)
    \/ \E c \in Counterparties, ok \in BOOLEAN : init(c, ok)
    \/ \E c \in Counterparties, ok \in BOOLEAN : onceClosed(c, ok)
    \/ \E c \in Counterparties : then_withdraw(c)
    \/ \E c \in Counterparties, ok \in BOOLEAN : withdraw(c, ok)
    \/ closeChannels
    \/ scan_data
    \/ scan_error
    \/ scan_end

SpecSettle == InitSettle /\ [][NextSettle]_vars

\* The event loop runs every callback that is due: the stream's data
\* handler and the .then callback.  Whether a collaborator's promise
\* settles, and whether the stream fails, is not up to the node.
FairSettle ==
    /\ SpecSettle
    /\ WF_vars(scan_data)
    /\ \A c \in Counterparties : WF_vars(then_withdraw(c))

\* ----------------------------------- specification: settlement window --

\* The node holds a Channel object for each of its active channels.
InitWindow ==
    /\ version = "channel/index.ts"
    /\ db = [c \in Counterparties |-> [balance_a |-> 60, balance |-> 100]]
    /\ ledger = [c \in Counterparties |-> "Active"]
    /\ call = IdleCall
    /\ NoNonces
    /\ settle = [c \in Counterparties |-> NoSettler]
    /\ scan = NoScan
    /\ NoBalances /\ NoTickets /\ NoChallenges
    /\ pendingWindow \in Windows
    /\ cached = [c \in Counterparties |-> <<>>]
    /\ NoConnector

NextWindow ==
    \/ \E c \in Counterparties, queryOk \in BOOLEAN :
            get_settlementWindow(c, queryOk)
    \/ \E window \in Windows : set_pendingWindow(window)
    \/ \E c \in Counterparties : initiateSettlement(c)
    \/ \E c \in Counterparties, ok \in BOOLEAN : ChannelSettler_create(c, ok)
    \/ \E c \in Counterparties, ok \in BOOLEAN : init(c, ok)
    \/ \E c \in Counterparties, ok \in BOOLEAN : onceClosed(c, ok)

SpecWindow == InitWindow /\ [][NextWindow]_vars

\* --------------------------------------------- claims: settlement -------

\* C4: withdraw is never invoked before onceClosed has resolved and not at
\* all when onceClosed rejects; it is invoked at most once, and the
\* settlement does not complete without it having been invoked once.
C4_Theorem ==
    \A c \in Counterparties :
        /\ settle[c].withdrawCalls <= 1
        /\ settle[c].withdrawCalls > 0 => settle[c].onceClosed = "resolved"
        /\ settle[c].withdraw # None => settle[c].withdrawCalls = 1
        /\ settle[c].onceClosed = "rejected" => settle[c].withdraw = None
        /\ initiateSettlement_result(settle[c]) = "resolved" =>
              settle[c].withdrawCalls = 1

\* withdraw has been invoked on a closed channel.
C4_Witness ==
    \E c \in Counterparties :
        settle[c].onceClosed = "resolved" /\ settle[c].withdrawCalls = 1

\* C8: closeChannels invokes initiateSettlement exactly once on every
\* channel record present in the local store and on nothing else.
C8_Theorem ==
    /\ [](\A c \in Counterparties :
            /\ scan.invoked[c] <= 1
            /\ scan.invoked[c] = 1 => c \in scan.snapshot
            /\ scan.invoked[c] = 1 => settle[c].pc # "idle"
            /\ scan.pc = "ended" /\ c \in scan.snapshot => scan.invoked[c] = 1)
    /\ [][(scan.pc # "stream" /\ scan'.pc = "stream")
            => scan'.snapshot = DOMAIN db]_vars

\* closeChannels has scanned a store of two or more records to the end.
C8_Witness ==
    /\ scan.pc = "ended"
    /\ Cardinality(scan.snapshot) >= 2
    /\ \A c \in scan.snapshot : scan.invoked[c] = 1

\* C9: closeChannels never resolves successfully while the settlement of a
\* channel it has visited has failed.
C9_Claim ==
    [][(scan.result # "resolved" /\ scan'.result = "resolved")
         => \A c \in Counterparties :
               scan.invoked[c] > 0 =>
                  initiateSettlement_result(settle[c]) # "rejected"]_vars

\* C10: a channel whose settlement faults or never completes does not block
\* the others: every stored channel's settlement is started unless the scan
\* itself fails, and once its own onceClosed has resolved its withdraw is
\* invoked, whatever state the other settlements are in.
C10_Theorem ==
    \A c \in Counterparties :
        /\ (scan.pc = "stream" /\ c \in scan.snapshot)
              ~> (scan.invoked[c] = 1 \/ scan.pc = "error")
        /\ (scan.invoked[c] = 1 /\ settle[c].onceClosed = "resolved")
              ~> (settle[c].withdraw # None)

\* A settlement started by closeChannels has thrown, and the settlement of
\* a channel visited after it has reached withdraw.
C10_Witness ==
    \E c, d \in Counterparties :
        /\ d < c
        /\ scan.invoked[d] = 1 /\ scan.invoked[c] = 1
        /\ settle[d].pc = "thrown"
        /\ settle[c].withdraw # None


\* C11: getAll visits the stored channels in ascending key order; when the
\* scan emits an error the promise getAll returned is rejected, onEnd is
\* not applied and nothing more comes of that call.
C11_Theorem ==
    /\ [](\A i, j \in DOMAIN scan.visited :
             i < j => scan.visited[i] < scan.visited[j])
    /\ [](scan.pc = "error" => scan.result = "rejected" /\ scan.onEnd = 0)
    /\ [][scan.pc = "error" => (scan' = scan \/ scan'.pc = "stream")]_vars

\* The scan has failed after two channels were visited.
C11_Witness ==
    /\ scan.pc = "error"
    /\ Len(scan.visited) >= 2
    /\ Len(scan.promises) >= 2


\* ------------------------------------------ Channel balance getters -----

\* ChannelEnum.type; the first three variants carry balance_a and balance.
WithBalances == {"Funded", "Active", "PendingSettlement"}
ChannelTypes == WithBalances \cup {"Uninitialized"}

\* The states a Channel object may hold in _signedChannel.channel; the
\* balances are the ones create was given.
ChannelStates ==
    { [type |-> t, balance_a |-> b.balance_a, balance |-> b.balance] :
         t \in WithBalances, b \in ChannelBalances }
    \cup { [type |-> "Uninitialized", balance_a |-> 0, balance |-> 0] }

\* get balance_a(): this.channel.then(channel => switch (channel.type) ...)
balance_a(channel) ==
    IF channel.type \in WithBalances
    THEN Resolved(channel.balance_a)
    ELSE Rejected("InvalidState")

\* get balance()
balance(channel) ==
    IF channel.type \in WithBalances
    THEN Resolved(channel.balance)
    ELSE Rejected("InvalidState")

\* new Promise(async resolve => resolve(createType('Balance',
\*     (await this.balance).sub(await this.balance_a)))): the executor is an
\* async function, so when an await in it throws, or createType does, the
\* promise it was to resolve is left pending; there is no reject.
Difference(channel) ==
    IF balance(channel).state = "rejected" \/ balance_a(channel).state = "rejected"
    THEN {Pending}
    ELSE Balance_create(balance(channel).value - balance_a(channel).value)

\* get currentBalance()
currentBalance(self, c, channel) ==
    IF isPartyA(self, c) THEN {balance_a(channel)} ELSE Difference(channel)

\* get currentBalanceOfCounterparty()
currentBalanceOfCounterparty(self, c, channel) ==
    IF ~isPartyA(self, c) THEN {balance_a(channel)} ELSE Difference(channel)

Getters ==
    {"balance_a", "balance", "currentBalance", "currentBalanceOfCounterparty"}

\* The ways the promise of a getter can end up.
GetterOutcomes(name, c, channel) ==
    CASE name = "balance_a" -> {balance_a(channel)}
      [] name = "balance" -> {balance(channel)}
      [] name = "currentBalance" -> currentBalance(Self, c, channel)
      [] name = "currentBalanceOfCounterparty" ->
            currentBalanceOfCounterparty(Self, c, channel)

NoGetter ==
    [ pc |-> "idle", name |-> None, c |-> Self,
      channel |-> [type |-> "Uninitialized", balance_a |-> 0, balance |-> 0],
      outcome |-> Pending ]

\* A getter is read on the Channel object of counterparty c.
get(name, c, channel) ==
    /\ getter.pc \in {"idle", "done"}
    /\ getter' = [NoGetter EXCEPT !.pc = "called", !.name = name, !.c = c,
                                  !.channel = channel]
    /\ UNCHANGED <<openVars, nonceVars, settleVars, ticketVars,
                   challengeVars, windowVars, connectorVars>>

\* Every callback the read has queued has run.
get_settle ==
    /\ getter.pc = "called"
    /\ \E o \in GetterOutcomes(getter.name, getter.c, getter.channel) :
          getter' = [getter EXCEPT !.pc = "done", !.outcome = o]
    /\ UNCHANGED <<openVars, nonceVars, settleVars, ticketVars,
                   challengeVars, windowVars, connectorVars>>

InitBalance ==
    /\ version = "channel/index.ts"
    /\ ledger = [c \in Counterparties |-> "Active"]
    /\ db = <<>>
    /\ call = IdleCall
    /\ NoNonces
    /\ NoSettlement
    /\ getter = NoGetter
    /\ NoTickets /\ NoChallenges /\ NoWindow
    /\ NoConnector

NextBalance ==
    \/ \E name \in Getters, c \in Counterparties, channel \in ChannelStates :
          get(name, c, channel)
    \/ get_settle

SpecBalance == InitBalance /\ [][NextBalance]_vars

\* ------------------------------------------------ claims: balances ------

\* The share the getter is to return: party A's share is balance_a, party
\* B's is balance - balance_a.
SharesPartyA == isPartyA(Self, getter.c) = (getter.name = "currentBalance")
ExpectedShare ==
    IF SharesPartyA THEN getter.channel.balance_a
    ELSE getter.channel.balance - getter.channel.balance_a
OtherShare ==
    IF getter.name = "currentBalance" THEN "currentBalanceOfCounterparty"
    ELSE "currentBalance"

\* C12: for a channel whose state carries balances, currentBalance is
\* balance_a for party A and balance - balance_a for party B,
\* currentBalanceOfCounterparty is the complementary share, neither is
\* negative and the two sum to balance.
C12_Claim ==
    ( /\ getter.pc = "done"
      /\ getter.channel.type \in WithBalances
      /\ getter.name \in {"currentBalance", "currentBalanceOfCounterparty"} )
    => /\ getter.outcome.state = "resolved"
       /\ getter.outcome.value = ExpectedShare
       /\ getter.outcome.value >= 0
       /\ \A o \in GetterOutcomes(OtherShare, getter.c, getter.channel) :
             /\ o.state = "resolved"
             /\ o.value >= 0
             /\ o.value + getter.outcome.value = getter.channel.balance

\* C13: on a channel whose state carries no balances each of the four
\* getters settles with the invalid-state fault; it yields no balance and
\* is not left pending.
C13_Claim ==
    (getter.pc = "done" /\ getter.channel.type \notin WithBalances)
    => getter.outcome.state = "rejected" /\ getter.outcome.fault = "InvalidState"


\* ------------------------------------------------------ SignedTicket ----

\* Largest byte value, and the longest run of bytes put before a
\* SignedTicket in the buffer it is decoded from.
MaxByte == 1
MaxOffset == 1

\* Signature.SIZE and Ticket.SIZE, scaled down.
SignatureSize == 2
TicketSize == 3

Bytes == 0 .. MaxByte

\* Byte strings of length n, and of length lo to hi.
BytesOfLen(n) == [1 .. n -> Bytes]
BytesUpTo(lo, hi) == UNION {BytesOfLen(n) : n \in lo .. hi}

Zeros(n) == [i \in 1 .. n |-> 0]

\* Signature values are SignatureSize bytes; a Ticket value is the byte
\* string of its fields.
SignatureValues == BytesOfLen(SignatureSize)
TicketValues == BytesUpTo(0, TicketSize)

\* ticket.toU8a(): the length of the fields, then the fields.
toU8a(ticket) == <<Len(ticket)>> \o ticket

\* new Ticket(registry, bytes): the fields are read back by their length;
\* what follows them is not looked at.
Ticket_decode(bytes) ==
    IF bytes # <<>> /\ Len(bytes) >= 1 + bytes[1]
    THEN [ok |-> TRUE, ticket |-> SubSeq(bytes, 2, 1 + bytes[1])]
    ELSE [ok |-> FALSE, ticket |-> <<>>]

\* static get SIZE()
SignedTicket_SIZE == SignatureSize + TicketSize

\* new Uint8Array(typedArray, ...): the typed array is copied into a buffer
\* of its own; further arguments are not looked at.
Uint8Array_from(bytes) ==
    [fault |-> None, buffer |-> bytes, byteOffset |-> 0, length |-> Len(bytes)]

Thrown(fault) ==
    [fault |-> fault, buffer |-> <<>>, byteOffset |-> 0, length |-> 0]

\* Padding left out: the ticket is not filled up to its width.
Padding_none(n) == <<>>

\* new Uint8Array(Ticket.SIZE - ticket.length)
Padding(n) == Zeros(n)

\* new Uint8Array(arrayBuffer, byteOffset, length): a view on the buffer,
\* or a RangeError when it does not fit.
Uint8Array_on(buffer, byteOffset, length) ==
    IF byteOffset + length <= Len(buffer)
    THEN [fault |-> None, buffer |-> buffer, byteOffset |-> byteOffset,
          length |-> length]
    ELSE Thrown("RangeError")

\* constructor(arr?: {bytes, offset}, struct?: {signature, ticket}).
\* arr.bytes is declared a Uint8Array; isArrayBuffer marks a caller that
\* passes the ArrayBuffer underneath instead.
SignedTicket_constructor(arr, struct) ==
    IF arr # <<>> /\ struct = <<>>
    THEN IF arr[1].isArrayBuffer
         THEN Uint8Array_on(arr[1].bytes, arr[1].offset, SignedTicket_SIZE)
         ELSE Uint8Array_from(arr[1].bytes)
    ELSE IF arr = <<>> /\ struct # <<>>
         THEN LET ticket == toU8a(struct[1].ticket)
              IN IF Len(ticket) = TicketSize
                 THEN Uint8Array_from(struct[1].signature \o ticket)
                 ELSE IF Len(ticket) < TicketSize
                      THEN Uint8Array_from(struct[1].signature \o ticket
                                           \o Padding(TicketSize - Len(ticket)))
                      ELSE Thrown("TicketTooBig")
         ELSE Thrown("InvalidArguments")

\* new Uint8Array(buffer, byteOffset, length) as a view: the bytes it shows,
\* or a RangeError when it does not fit the buffer.
View(buffer, byteOffset, length) ==
    IF byteOffset + length <= Len(buffer)
    THEN [ok |-> TRUE, bytes |-> SubSeq(buffer, byteOffset + 1, byteOffset + length)]
    ELSE [ok |-> FALSE, bytes |-> <<>>]

\* subarray(begin, end)
SignedTicket_subarray(obj, begin, end) ==
    View(obj.buffer, obj.byteOffset + begin, end - begin)

\* get signature(): new Signature({bytes: this.buffer, offset:
\* this.byteOffset}), the Signature.SIZE bytes from there.
SignedTicket_signature(obj) ==
    View(obj.buffer, obj.byteOffset, SignatureSize)

\* get ticket()
SignedTicket_ticket(obj) ==
    LET region == SignedTicket_subarray(obj, SignatureSize,
                                        SignatureSize + TicketSize)
    IN IF region.ok THEN Ticket_decode(region.bytes)
       ELSE [ok |-> FALSE, ticket |-> <<>>]

\* secp256k1.recover(message, signature, recovery) on the fields of the
\* signature: it throws on a signature it cannot parse (all zero), else it
\* gives the public key, a function of the signature.
Malformed(sig) == \A i \in DOMAIN sig : sig[i] = 0
recover(sig) ==
    IF Malformed(sig) THEN [ok |-> FALSE, key |-> <<>>]
    ELSE [ok |-> TRUE, key |-> <<"publicKey">> \o sig]

\* How the promise of signer ends up.
Signer(state, key) == [state |-> state, key |-> key]

\* signer without the try / catch: a throw in the async executor leaves the
\* promise pending.
SignedTicket_signer_uncaught(obj) ==
    LET sig == SignedTicket_signature(obj)
    IN IF sig.ok /\ recover(sig.bytes).ok
       THEN Signer("resolved", recover(sig.bytes).key)
       ELSE Signer("pending", <<>>)

\* get signer(): try { resolve(secp256k1.recover(...)) } catch { reject }
SignedTicket_signer(obj) ==
    LET sig == SignedTicket_signature(obj)
    IN IF sig.ok /\ recover(sig.bytes).ok
       THEN Signer("resolved", recover(sig.bytes).key)
       ELSE Signer("rejected", <<>>)

NoSignedTicket ==
    [ pc |-> "none", arr |-> <<>>, struct |-> <<>>, origin |-> <<>>,
      obj |-> Thrown(None), signatureRead |-> <<>>, ticketRead |-> <<>>,
      signers |-> <<>> ]

\* new SignedTicket(arr, struct); pc is "built" or "thrown".
Construct(arr, struct) ==
    LET obj == SignedTicket_constructor(arr, struct)
    IN [NoSignedTicket EXCEPT
          !.pc = IF obj.fault = None THEN "built" ELSE "thrown",
          !.arr = arr, !.struct = struct, !.obj = obj]

\* new SignedTicket(arr, struct) with a signature and a ticket; withArr: an
\* arr argument is passed, withStruct: the struct is passed.  origin keeps
\* the signature and the ticket the bytes of the object were made from.
encode(sig, ticket, withArr, withStruct) ==
    /\ signedTicket.pc = "none"
    /\ LET struct == [signature |-> sig, ticket |-> ticket]
           arr == [bytes |-> Zeros(SignedTicket_SIZE), offset |-> 0,
                   isArrayBuffer |-> FALSE]
       IN signedTicket' =
             [Construct(IF withArr THEN <<arr>> ELSE <<>>,
                        IF withStruct THEN <<struct>> ELSE <<>>)
                EXCEPT !.origin = IF withStruct THEN <<struct>> ELSE <<>>]
    /\ UNCHANGED <<openVars, nonceVars, settleVars, balanceVars,
                   challengeVars, windowVars, connectorVars>>

\* new SignedTicket({bytes, offset}) on a buffer that holds the SignedTicket
\* just built behind some other bytes.
decode(before, isArrayBuffer) ==
    /\ signedTicket.pc = "built"
    /\ signedTicket.struct # <<>>
    /\ signedTicket.arr = <<>>
    /\ LET arr == [bytes |-> before \o signedTicket.obj.buffer,
                   offset |-> Len(before), isArrayBuffer |-> isArrayBuffer]
       IN signedTicket' =
             [Construct(<<arr>>, <<>>) EXCEPT !.origin = signedTicket.origin]
    /\ UNCHANGED <<openVars, nonceVars, settleVars, balanceVars,
                   challengeVars, windowVars, connectorVars>>

\* .signature and .ticket are read.
read ==
    /\ signedTicket.pc = "built"
    /\ signedTicket.signatureRead = <<>>
    /\ signedTicket' =
          [signedTicket EXCEPT
             !.signatureRead = <<SignedTicket_signature(signedTicket.obj)>>,
             !.ticketRead = <<SignedTicket_ticket(signedTicket.obj)>>]
    /\ UNCHANGED <<openVars, nonceVars, settleVars, balanceVars,
                   challengeVars, windowVars, connectorVars>>

\* .signer is read and its promise has settled, or cannot settle any more.
signer ==
    /\ signedTicket.pc = "built"
    /\ Len(signedTicket.signers) < 2
    /\ signedTicket' =
          [signedTicket EXCEPT
             !.signers = Append(@, SignedTicket_signer(signedTicket.obj))]
    /\ UNCHANGED <<openVars, nonceVars, settleVars, balanceVars,
                   challengeVars, windowVars, connectorVars>>

InitTicket ==
    /\ version = "src/index.ts"
    /\ ledger = [c \in Counterparties |-> "Uninitialized"]
    /\ db = <<>>
    /\ call = IdleCall
    /\ NoNonces
    /\ NoSettlement
    /\ NoBalances
    /\ signedTicket = NoSignedTicket
    /\ NoChallenges /\ NoWindow
    /\ NoConnector

NextTicket ==
    \/ \E sig \in SignatureValues, ticket \in TicketValues,
          withArr \in BOOLEAN, withStruct \in BOOLEAN :
            encode(sig, ticket, withArr, withStruct)
    \/ \E before \in BytesUpTo(0, MaxOffset), isArrayBuffer \in BOOLEAN :
            decode(before, isArrayBuffer)
    \/ read
    \/ signer

SpecTicket == InitTicket /\ [][NextTicket]_vars

\* ------------------------------------------- claims: SignedTicket ------

\* The object was built from (signature, ticket) alone.
FromStruct == signedTicket.arr = <<>> /\ signedTicket.struct # <<>>

\* C14: built from (signature, ticket), the constructor throws when the
\* ticket's encoding is longer than Ticket.SIZE; otherwise the object is
\* Signature.SIZE + Ticket.SIZE bytes: the signature, the ticket's bytes,
\* then zeros.  With both arguments or with neither it throws.
C14_Theorem ==
    /\ FromStruct =>
          LET sig == signedTicket.struct[1].signature
              ticket == toU8a(signedTicket.struct[1].ticket)
              buffer == signedTicket.obj.buffer
          IN IF Len(ticket) > TicketSize
             THEN /\ signedTicket.pc = "thrown"
                  /\ signedTicket.obj.fault = "TicketTooBig"
             ELSE /\ signedTicket.pc = "built"
                  /\ signedTicket.obj.length = SignatureSize + TicketSize
                  /\ Len(buffer) = SignatureSize + TicketSize
                  /\ \A i \in 1 .. SignatureSize : buffer[i] = sig[i]
                  /\ \A i \in 1 .. Len(ticket) :
                        buffer[SignatureSize + i] = ticket[i]
                  /\ \A i \in SignatureSize + Len(ticket) + 1 .. Len(buffer) :
                        buffer[i] = 0
    /\ ( /\ signedTicket.pc # "none"
         /\ (signedTicket.arr = <<>>) = (signedTicket.struct = <<>>) )
       => /\ signedTicket.pc = "thrown"
          /\ signedTicket.obj.fault = "InvalidArguments"

\* A ticket shorter than its width was built into a SignedTicket.
C14_Witness ==
    /\ FromStruct
    /\ signedTicket.pc = "built"
    /\ Len(toU8a(signedTicket.struct[1].ticket)) < TicketSize
    /\ signedTicket.obj.buffer[Len(signedTicket.obj.buffer)] = 0

\* C15: .signature and .ticket of a SignedTicket give back the signature and
\* the ticket it was made from, also when it was decoded from a larger
\* buffer at an offset.
C15_Claim ==
    ( /\ signedTicket.pc = "built"
      /\ signedTicket.origin # <<>>
      /\ signedTicket.signatureRead # <<>> )
    => /\ signedTicket.signatureRead[1].ok
       /\ signedTicket.signatureRead[1].bytes = signedTicket.origin[1].signature
       /\ signedTicket.ticketRead[1].ok
       /\ signedTicket.ticketRead[1].ticket = signedTicket.origin[1].ticket

NumChallenges == 2

\* Challenge hashes and key halves are two-bit values; the all-zero hash is
\* the bound of the scan and no challenge.
Challenges == 1 .. NumChallenges
KeyHalves == 1 .. NumChallenges

\* dbKeys.Challenge(channelId, challenge); keys compare bytewise.
Challenge(c, challenge) == <<c, challenge>>
KeyLess(j, k) == j[1] < k[1] \/ (j[1] = k[1] /\ j[2] < k[2])

\* utils.u8aXOR(false, a, b) on two-bit values.
u8aXOR(a, b) ==
    (((a % 2) + (b % 2)) % 2) + 2 * (((a \div 2) + (b \div 2)) % 2)

\* utils.u8aXOR(false, ...pubKeys)
RECURSIVE u8aXORAll(_)
u8aXORAll(pubKeys) ==
    IF pubKeys = <<>> THEN 0
    ELSE u8aXOR(Head(pubKeys), u8aXORAll(Tail(pubKeys)))

\* The entries of the Challenge namespace that
\* createReadStream({gt: Challenge(channelId, 0x00..00),
\*                   lt: Challenge(channelId, 0x00..00)}) emits, in key order.
RECURSIVE InKeyOrder(_)
InKeyOrder(keys) ==
    IF keys = {} THEN <<>>
    ELSE LET least == CHOOSE k \in keys : \A j \in keys : j = k \/ KeyLess(k, j)
         IN <<least>> \o InKeyOrder(keys \ {least})
ChallengeStream(c) ==
    InKeyOrder({k \in DOMAIN challengeDb :
                  KeyLess(Challenge(c, 0), k) /\ KeyLess(k, Challenge(c, 0))})

NoChallengeCall ==
    [pc |-> "idle", c |-> Self, pubKeys |-> <<>>, state |-> None, hash |-> <<>>]

\* channel.getPreviousChallenges(): the stream is opened once the channel
\* id is known; when await this.channelId throws in the async executor the
\* promise is left pending.
getPreviousChallenges(c, idOk) ==
    /\ gpc.pc \in {"idle", "done"}
    /\ gpc' = [NoChallengeCall EXCEPT !.pc = IF idOk THEN "stream" ELSE "done",
                                      !.c = c, !.state = "pending"]
    /\ UNCHANGED <<openVars, nonceVars, settleVars, balanceVars, ticketVars,
                   challengeDb, windowVars, connectorVars>>

\* .on('error', reject)
gpc_error ==
    /\ gpc.pc = "stream"
    /\ gpc' = [gpc EXCEPT !.pc = "done", !.state = "rejected"]
    /\ UNCHANGED <<openVars, nonceVars, settleVars, balanceVars, ticketVars,
                   challengeDb, windowVars, connectorVars>>

\* The stream runs to its end: .on('data', ...) pushes
\* u8aXOR(challenge, ownKeyHalf) for every entry emitted, and .on('end', ...)
\* resolves with the XOR of what was pushed, or with nothing.  The handler
\* takes ownKeyHalf off the event; it is read here as the stored value.
gpc_end ==
    /\ gpc.pc = "stream"
    /\ LET emitted == ChallengeStream(gpc.c)
           pubKeys == [i \in DOMAIN emitted |->
                         u8aXOR(emitted[i][2], challengeDb[emitted[i]])]
       IN gpc' = [gpc EXCEPT
                    !.pc = "done", !.pubKeys = pubKeys, !.state = "resolved",
                    !.hash = IF Len(pubKeys) > 0 THEN <<u8aXORAll(pubKeys)>>
                             ELSE <<>>]
    /\ UNCHANGED <<openVars, nonceVars, settleVars, balanceVars, ticketVars,
                   challengeDb, windowVars, connectorVars>>

\* The store holds the key halves of some challenges of some channels.
InitChallenge ==
    /\ version = "channel/index.ts"
    /\ ledger = [c \in Counterparties |-> "Active"]
    /\ db = [c \in Counterparties |-> [balance_a |-> 60, balance |-> 100]]
    /\ call = IdleCall
    /\ NoNonces /\ NoSettlement /\ NoBalances /\ NoTickets /\ NoWindow
    /\ \E keys \in SUBSET {Challenge(c, ch) : c \in Counterparties,
                                              ch \in Challenges} :
          challengeDb \in [keys -> KeyHalves]
    /\ gpc = NoChallengeCall
    /\ NoConnector

NextChallenge ==
    \/ \E c \in Counterparties, idOk \in BOOLEAN : getPreviousChallenges(c, idOk)
    \/ gpc_error
    \/ gpc_end

SpecChallenge == InitChallenge /\ [][NextChallenge]_vars

\* The challenges on record for the channel of the call.
OnRecord(c) == {k \in DOMAIN challengeDb : k[1] = c}

\* C17: getPreviousChallenges resolves with the XOR of the contributions of
\* all challenge entries on record for the channel, and with the empty
\* result only when none is on record.
C17_Claim ==
    (gpc.pc = "done" /\ gpc.state = "resolved")
    => IF OnRecord(gpc.c) = {}
       THEN gpc.hash = <<>>
       ELSE LET entries == InKeyOrder(OnRecord(gpc.c))
            IN gpc.hash = <<u8aXORAll([i \in DOMAIN entries |->
                              u8aXOR(entries[i][2], challengeDb[entries[i]])])>>

\* ------------------------------------ claims: settlement, ordering -----

\* C18: withdraw is not attempted before the settler's init has completed.
C18_Claim ==
    \A c \in Counterparties :
        settle[c].withdrawCalls > 0 => settle[c].init = "resolved"

\* C20: the settlement window initiateSettlement hands to the settler is
\* the ledger's pendingWindow at the time of the call.
C20_Claim ==
    [][\A c \in Counterparties :
          (settle[c].pc # "create" /\ settle'[c].pc = "create")
             => settle'[c].settlementWindow = <<pendingWindow>>]_vars

\* C19: a Channel object, on which initiateSettlement can be called, exists
\* only for a counterparty whose opening has completed: create returns one
\* only when the store holds the channel's record, getAll and closeChannels
\* build theirs from the records; a record is written only in a call that
\* has seen both onceOpen and setActive resolve for that counterparty, and
\* is never removed.
C19_Theorem ==
    /\ [][\A c \in Counterparties :
            (~ExistsInStore(c) /\ ExistsInStore(c)')
               => /\ call.c = c
                  /\ call.onceOpen = "resolved"
                  /\ call.setActive = "resolved"]_vars
    /\ [](call.pc = "done" => ExistsInStore(call.c))
    /\ [][\A c \in Counterparties : ExistsInStore(c) => ExistsInStore(c)']_vars

\* create has returned the Channel of a channel opened by an earlier call.
C19_Witness ==
    /\ call.pc = "done"
    /\ call.api = "create"
    /\ call.isOpen = "true"
    /\ call.onceOpen = None
    /\ ExistsInStore(call.c)

\* ------------------------------------ claims: balances at opening --------

\* C21: every record Channel.create writes to the local store satisfies
\* balance_a <= balance, whatever channelBalance the caller passes, and
\* create never escrows a negative amount.
C21_Claim ==
    version = "channel/index.ts"
       => /\ \A c \in DOMAIN db : db[c].balance_a <= db[c].balance
          /\ (call.api = "create" /\ call.increaseFunds = 1)
                => call.amount[1] >= 0

\* The share of balance that is the local party's when c is the
\* counterparty: balance_a for party A, the rest for party B.
OwnShare(c, channelBalance) ==
    IF isPartyA(Self, c)
    THEN channelBalance.balance_a
    ELSE channelBalance.balance - channelBalance.balance_a

\* The channel that results from create's opening with channelBalance.
Opened_channel(channelBalance) ==
    [ type |-> "Active",
      balance_a |-> channelBalance.balance_a,
      balance |-> channelBalance.balance ]

Divergences == {"offChainNotOnChain", "onChainNotOffChain"}

\* create's call of isOpen has thrown one of the two divergence errors.
FoundDivergence == call.api = "create" /\ call.isOpen \in Divergences

\* C23: when create's isOpen finds that ledger and local store disagree
\* about the channel, create faults with no increaseFunds, no signing, no
\* onceOpen, no setActive and no write to the local store, in the step that
\* finds the divergence and for as long as the call is the last one made.
C23_Theorem ==
    /\ [](FoundDivergence
            => /\ call.pc = "fault"
               /\ call.increaseFunds = 0
               /\ call.signCalls = 0
               /\ call.puts = 0
               /\ call.onceOpen = None
               /\ call.setActive = None
               /\ call.fundingTx = None
               /\ call.signedChannel = <<>>)
    /\ [][FoundDivergence' => db' = db]_vars

\* create was given channelBalance and sign, all it needs to open the
\* channel anew, and has faulted on a channel the ledger holds and the store
\* does not.
C23_Witness ==
    /\ FoundDivergence
    /\ call.isOpen = "onChainNotOffChain"
    /\ call.sign
    /\ call.channelBalance # <<>>
    /\ ExistsOnLedger(call.c)
    /\ ~ExistsInStore(call.c)
    /\ call.pc = "fault"

\* ------------------------------------------- the connector: nonce -------

\* Reads of the nonce getter the checked runs make, and the largest account
\* nonce the ledger holds for the node's account at the start.
NumReads == 3
MaxAccountNonce == 1

\* The connector object after its constructor: _nonce is unset, no read of
\* the getter was made.  reads[i] is the promise of the i-th read, returned
\* the values in the order in which the promises resolved.
NewConnector(n) ==
    [ accountNonce |-> n, _nonce |-> <<>>, queries |-> 0,
      reads |-> <<>>, returned |-> <<>> ]

\* get nonce(): with _nonce set, Promise.resolve(this._nonce++); otherwise a
\* promise whose executor starts api.query.system.accountNonce.
nonce ==
    /\ Len(connector.reads) < NumReads
    /\ connector' =
         IF connector._nonce # <<>>
         THEN [connector EXCEPT
                 !.reads = Append(@, Resolved(connector._nonce[1])),
                 !.returned = Append(@, connector._nonce[1]),
                 !._nonce = <<@[1] + 1>>]
         ELSE [connector EXCEPT
                 !.reads = Append(@, Pending),
                 !.queries = @ + 1]
    /\ UNCHANGED <<openVars, nonceVars, settleVars, balanceVars, ticketVars,
                   challengeVars, windowVars, onChainValues>>

\* The accountNonce query of read i settles: this._nonce = (await ...)
\* .toNumber(); resolve(this._nonce++), or reject(err) when it fails.
nonce_accountNonce(i, ok) ==
    /\ i \in DOMAIN connector.reads
    /\ connector.reads[i] = Pending
    /\ connector' =
         IF ok
         THEN [connector EXCEPT
                 !.reads[i] = Resolved(connector.accountNonce),
                 !.returned = Append(@, connector.accountNonce),
                 !._nonce = <<connector.accountNonce + 1>>]
         ELSE [connector EXCEPT !.reads[i] = Rejected("accountNonce")]
    /\ UNCHANGED <<openVars, nonceVars, settleVars, balanceVars, ticketVars,
                   challengeVars, windowVars, onChainValues>>

InitConnector ==
    /\ version \in Versions
    /\ ledger = [c \in Counterparties |-> "Uninitialized"]
    /\ db = <<>>
    /\ call = IdleCall
    /\ NoNonces /\ NoSettlement /\ NoOther
    /\ \E n \in 0 .. MaxAccountNonce : connector = NewConnector(n)
    /\ onChainValues = <<>>

NextConnector ==
    \/ nonce
    \/ \E i \in 1 .. NumReads, ok \in BOOLEAN : nonce_accountNonce(i, ok)

SpecConnector == InitConnector /\ [][NextConnector]_vars

\* C22: no two reads of the nonce getter return the same value: the values
\* returned are strictly increasing in the order in which the reads return,
\* also for reads started before the first accountNonce query has returned,
\* and the ledger is queried for the account nonce at most once.
C22_Claim ==
    /\ \A i, j \in DOMAIN connector.returned :
          i < j => connector.returned[i] < connector.returned[j]
    /\ connector.queries <= 1

\* ----------------------------------- the connector: on-chain values -----

\* Secrets randomBytes can draw, and calls of HoprPolkadot.create and
\* initOnchainValues the checked runs make.
NumSecrets == 2
MaxStarts == 2

\* for (let i = 0; i < 500; i++) secret = await hash(secret): the length of
\* the hash chain, 500 in the source, 1000 in the earlier connector.
HashIterations == 2
Iterations == IF version = "channel/index.ts" THEN HashIterations
              ELSE 2 * HashIterations

\* A value is a secret drawn by randomBytes, hashed a number of times.
Secret(s) == [seed |-> s, hashed |-> 0]
hash(v) == [v EXCEPT !.hashed = @ + 1]

RECURSIVE HashChain(_, _)
HashChain(v, n) == IF n = 0 THEN v ELSE HashChain(hash(v), n - 1)

\* A node before its first start: no secret in the store under
\* OnChainSecret, State.secret all zeros on the ledger, no transaction
\* submitted.  pending holds the hopr.init transactions the ledger has yet
\* to process, lastTx the last one submitted with the store's secret then.
NewNode ==
    [ pc |-> "new", api |-> None, starts |-> 0,
      secret |-> <<>>, offChain |-> FALSE, putOk |-> FALSE,
      stored |-> <<>>, state |-> <<>>, pending |-> <<>>, lastTx |-> <<>> ]

\* api.tx.hopr.init(pubkey, value).signAndSend(...)
Submit(o, value) ==
    [o EXCEPT !.pending = Append(@, value),
              !.lastTx = <<[secret |-> value, stored |-> o.stored]>>]

\* HoprPolkadot.create(db, seed, options) up to its call of
\* checkOnChainValues.
HoprPolkadot_create ==
    /\ version = "channel/index.ts"
    /\ onChainValues.pc \in {"new", "done", "fault"}
    /\ onChainValues.starts < MaxStarts
    /\ onChainValues' =
         [onChainValues EXCEPT !.pc = "get", !.api = "create",
                               !.starts = @ + 1, !.secret = <<>>,
                               !.offChain = FALSE, !.putOk = FALSE]
    /\ UNCHANGED <<openVars, nonceVars, settleVars, balanceVars, ticketVars,
                   challengeVars, windowVars, connector>>

\* secret = await db.get(OnChainSecret()); offChain = true; a notFound
\* error gives offChain = false, any other error is thrown.
checkOnChainValues_get(ioError) ==
    /\ onChainValues.pc = "get"
    /\ onChainValues' =
         IF ioError THEN [onChainValues EXCEPT !.pc = "fault"]
         ELSE [onChainValues EXCEPT
                 !.secret = onChainValues.stored,
                 !.offChain = onChainValues.stored # <<>>,
                 !.pc = "states"]
    /\ UNCHANGED <<openVars, nonceVars, settleVars, balanceVars, ticketVars,
                   challengeVars, windowVars, connector>>

\* state = await api.query.hopr.states(publicKey); onChain (registered) is
\* compared with offChain (held): if they differ init or throw; return offChain && onChain, on which create
\* returns the connector or calls initOnchainValues.
checkOnChainValues_states(queryOk) ==
    /\ onChainValues.pc = "states"
    /\ LET registered == onChainValues.state # <<>>
           held == onChainValues.offChain
       IN onChainValues' =
            [onChainValues EXCEPT
               !.pc = IF ~queryOk THEN "fault"
                      ELSE IF held # registered
                           THEN IF held THEN "init" ELSE "fault"
                           ELSE IF held /\ registered THEN "done" ELSE "put"]
    /\ UNCHANGED <<openVars, nonceVars, settleVars, balanceVars, ticketVars,
                   challengeVars, windowVars, connector>>

\* await api.tx.hopr.init(createType('Hash', publicKey), secret)
\* .signAndSend(keyPair) with the secret read from the store;
\* checkOnChainValues then returns false and create calls initOnchainValues.
checkOnChainValues_init(ok) ==
    /\ onChainValues.pc = "init"
    /\ onChainValues' =
         IF ok
         THEN [Submit(onChainValues, onChainValues.secret[1])
                 EXCEPT !.pc = "put"]
         ELSE [onChainValues EXCEPT !.pc = "fault"]
    /\ UNCHANGED <<openVars, nonceVars, settleVars, balanceVars, ticketVars,
                   challengeVars, windowVars, connector>>

\* connector.initOnchainValues(nonce) called on a connector that exists (at
\* any time in the earlier connector, which has no start-up check).
initOnchainValues ==
    /\ onChainValues.pc \in {"new", "done", "fault"}
    /\ version = "channel/index.ts" => onChainValues.pc = "done"
    /\ onChainValues.starts < MaxStarts
    /\ onChainValues' =
         [onChainValues EXCEPT !.pc = "put", !.api = "initOnchainValues",
                               !.starts = @ + 1, !.secret = <<>>,
                               !.offChain = FALSE, !.putOk = FALSE]
    /\ UNCHANGED <<openVars, nonceVars, settleVars, balanceVars, ticketVars,
                   challengeVars, windowVars, connector>>

\* secret = randomBytes(32); db.put(OnChainSecret(), secret.slice()).  The
\* earlier connector awaits the put before it hashes, the later one awaits
\* it together with the transaction.
initOnchainValues_put(s, ok) ==
    /\ onChainValues.pc = "put"
    /\ onChainValues' =
         [onChainValues EXCEPT
            !.secret = <<Secret(s)>>,
            !.stored = IF ok THEN <<Secret(s)>> ELSE @,
            !.putOk = ok,
            !.pc = IF ~ok /\ version = "src/index.ts" THEN "fault"
                   ELSE "send"]
    /\ UNCHANGED <<openVars, nonceVars, settleVars, balanceVars, ticketVars,
                   challengeVars, windowVars, connector>>

\* The hash loop, then api.tx.hopr.init(..., secret).signAndSend(...,
\* {nonce}); ok is false when the nonce getter or signAndSend rejects.
initOnchainValues_send(ok) ==
    /\ onChainValues.pc = "send"
    /\ LET hashed == HashChain(onChainValues.secret[1], Iterations)
           next == IF ok /\ onChainValues.putOk THEN "done" ELSE "fault"
       IN onChainValues' =
            IF ok THEN [Submit(onChainValues, hashed) EXCEPT !.pc = next]
            ELSE [onChainValues EXCEPT !.pc = next]
    /\ UNCHANGED <<openVars, nonceVars, settleVars, balanceVars, ticketVars,
                   challengeVars, windowVars, connector>>

\* The ledger processes the oldest hopr.init transaction submitted: it
\* registers the value for an account that has none, and accepts or
\* refuses it for an account that has one.
hopr_init(accept) ==
    /\ onChainValues.pending # <<>>
    /\ onChainValues' =
         [onChainValues EXCEPT
            !.pending = Tail(@),
            !.state = IF @ = <<>> \/ accept
                      THEN <<Head(onChainValues.pending)>> ELSE @]
    /\ UNCHANGED <<openVars, nonceVars, settleVars, balanceVars, ticketVars,
                   challengeVars, windowVars, connector>>

InitOnChain ==
    /\ version \in Versions
    /\ ledger = [c \in Counterparties |-> "Uninitialized"]
    /\ db = <<>>
    /\ call = IdleCall
    /\ NoNonces /\ NoSettlement /\ NoOther
    /\ connector = <<>>
    /\ onChainValues = NewNode

NextOnChain ==
    \/ HoprPolkadot_create
    \/ \E ioError \in BOOLEAN : checkOnChainValues_get(ioError)
    \/ \E queryOk \in BOOLEAN : checkOnChainValues_states(queryOk)
    \/ \E ok \in BOOLEAN : checkOnChainValues_init(ok)
    \/ initOnchainValues
    \/ \E s \in 1 .. NumSecrets, ok \in BOOLEAN : initOnchainValues_put(s, ok)
    \/ \E ok \in BOOLEAN : initOnchainValues_send(ok)
    \/ \E accept \in BOOLEAN : hopr_init(accept)

SpecOnChain == InitOnChain /\ [][NextOnChain]_vars

\* C25: every hopr.init transaction the connector submits carries the
\* iterated hash of the secret the store holds under OnChainSecret, never
\* that secret itself; and once HoprPolkadot.create has completed and the
\* ledger has processed what was submitted, the value registered on the
\* ledger is the hash-chain image of the secret in the store.
C25_Claim ==
    /\ \A tx \in {onChainValues.lastTx[k] : k \in DOMAIN onChainValues.lastTx} :
          /\ tx.stored # <<>>
          /\ tx.secret # tx.stored[1]
          /\ tx.secret = HashChain(tx.stored[1], Iterations)
    /\ (onChainValues.pc = "done" /\ onChainValues.api = "create"
          /\ onChainValues.pending = <<>>)
         => /\ onChainValues.stored # <<>>
            /\ onChainValues.state =
                 <<HashChain(onChainValues.stored[1], Iterations)>>

=============================================================================
